---- MODULE Spec2Model ----
(***************************************************************************)
(* Model of the insurance-claim notebook (src/insurance_demo.ipynb):       *)
(* the driver process_insurance_claim, the hand-off graph of the four      *)
(* agents, the input guardrail, the vision tool and the Doc Gen cell.      *)
(* The language model's replies and the external services are the          *)
(* environment: every reply the agent loop accepts is a possible input.    *)
(***************************************************************************)
EXTENDS Integers, Sequences, FiniteSets, TLC

\* ------------------------------------------------------------ bounds
\* Largest number of uploaded claim photos (uploaded_ids["uploaded_image_ids"]).
MaxImages == 1

\* The agent loop's turn limit.  Runner.run is called without max_turns, so the
\* library's default applies; the model explores runs up to this many turns.
MaxTurns == 7

\* ------------------------------------------------------------ agents
claim_orchestrator    == "Insurance Claim Orchestrator"
image_analysis_agent  == "Image Analyst"
cost_estimation_agent == "Cost Estimator"
repair_shop_agent     == "Repair Shop Finder"

Agents == {claim_orchestrator, image_analysis_agent, cost_estimation_agent,
           repair_shop_agent}

Specialists == {image_analysis_agent, cost_estimation_agent, repair_shop_agent}

\* The hand-off lists after the setup cell has run (repair_shop_agent.handoffs
\* is reassigned on the cell's last line).
HandoffsSkipping(a) ==
    IF a = claim_orchestrator THEN {image_analysis_agent, cost_estimation_agent}
    ELSE IF a = image_analysis_agent THEN {cost_estimation_agent, repair_shop_agent}
    ELSE IF a = cost_estimation_agent THEN {repair_shop_agent}
    ELSE {claim_orchestrator}

Handoffs(a) ==
    IF a = claim_orchestrator THEN {image_analysis_agent}
    ELSE IF a = image_analysis_agent THEN {cost_estimation_agent}
    ELSE IF a = cost_estimation_agent THEN {repair_shop_agent}
    ELSE {claim_orchestrator}

\* output_type of each agent.
OutputType(a) ==
    IF a = claim_orchestrator THEN "InsuranceReport"
    ELSE IF a = image_analysis_agent THEN "DamageInfo"
    ELSE IF a = cost_estimation_agent THEN "EstimatedCost"
    ELSE "Shops"

\* ------------------------------------------------------------ strings
\* Strings that the driver inspects are sequences of one-character strings.
Whitespace == {" ", "\t", "\n"}

RECURSIVE LStrip(_)
LStrip(s) == IF s # <<>> /\ Head(s) \in Whitespace THEN LStrip(Tail(s)) ELSE s

RECURSIVE RStrip(_)
RStrip(s) ==
    IF s # <<>> /\ s[Len(s)] \in Whitespace
    THEN RStrip(SubSeq(s, 1, Len(s) - 1)) ELSE s

\* str.strip()
Strip(s) == RStrip(LStrip(s))

Digit(n) == <<"0", "1", "2", "3", "4", "5", "6", "7", "8", "9">>[n + 1]

\* Decimal digits of n, zero-padded to width w.
RECURSIVE Pad(_, _)
Pad(n, w) == IF w = 0 THEN <<>> ELSE Append(Pad(n \div 10, w - 1), Digit(n % 10))

\* datetime.date.isoformat(): YYYY-MM-DD
IsoFormat(d) == Pad(d.year, 4) \o <<"-">> \o Pad(d.month, 2) \o <<"-">> \o Pad(d.day, 2)

\* The dates the clock may show.
Dates == {[year |-> 2025, month |-> 4, day |-> 21], [year |-> 2026, month |-> 11, day |-> 4]}

\* report_date values the merge may produce.
ReportDates == {<<>>, <<" ">>, <<"\t", " ">>, IsoFormat([year |-> 2025, month |-> 4, day |-> 2]),
                <<" ", "0", "4", "/", "0", "2", " ">>}

\* The line-704 test: "not report_date or not report_date.strip()".
IsBlankNoStrip(s) == s = <<>>

IsBlank(s) == s = <<>> \/ Strip(s) = <<>>

\* ", ".join(parts)
RECURSIVE Join(_)
Join(parts) ==
    IF parts = <<>> THEN ""
    ELSE IF Len(parts) = 1 THEN parts[1]
    ELSE parts[1] \o ", " \o Join(Tail(parts))

\* ------------------------------------------------------------ values
\* Optional[...] fields: None or a present value.
None == [some |-> FALSE, val |-> <<>>]
Some(v) == [some |-> TRUE, val |-> v]

CLAIM_ID == "G8947892834455"

NoOutput == [type |-> "None"]

\* The InsuranceReport objects that validate against the pydantic models: the
\* three merged fields of Claim are Optional with default None, report_date and
\* claim_number are any str.
PartsLists == {None, Some(<<>>), Some(<<"bumper", "camera">>)}

InsuranceReports ==
    [type : {"InsuranceReport"},
     claim_number : {CLAIM_ID, "G0"},
     report_date : ReportDates,
     damage_description : {None, Some(<<"d">>)},
     estimated_cost : {None, Some(<<"c">>)},
     damaged_parts_list : PartsLists]

\* A final output of a specialist: an instance of its output_type.
SpecialistOutput(a) == [type |-> OutputType(a)]


\* ------------------------------------------------------------ state
VARIABLES
    pc,            \* where process_insurance_claim is: "load", "urls", "run",
                   \* "check", "returned", "raised"
    exc,           \* the exception that left process_insurance_claim, or "none"
    numImages,     \* len(uploaded_ids["uploaded_image_ids"])
    resolved,      \* len(image_urls)
    agent,         \* the run's current agent
    turn,          \* the run's current_turn
    guard,         \* the input guardrail task: "idle", "running", "passed", "tripped"
    verdict,       \* is_insurance_related of the guardrail's output: "none", "in", "out"
    pending,       \* first turn's next step, held until the guardrail has finished
    hist,          \* the agents that have been current, in order
    invoked,       \* the agents whose model has been called
    emitted,       \* per specialist, its last reply text against its output_type:
                   \* "none", "valid" or "invalid"
    vision,        \* analyze_vehicle_damage_gpt4v: calls made and the last result
    searchCalls,   \* web searches made
    failure,       \* the external calls that have raised
    final_output,  \* result.final_output as Runner.run returned it
    report,        \* the value process_insurance_claim returned
    today,         \* datetime.date.today() as read by the driver
    docgen,        \* the Doc Gen cell: status ("none", "submitted", "type_error",
                   \* "failed") and the user_input that was submitted
    apc,           \* where authenticate_box is: "check", "thread", "browser",
                   \* "wait", "exchange", "client", "failed"
    hadTokens,     \* token_storage.get() was truthy when authenticate_box began
    flask,         \* the callback thread: "off", "started", "serving"
    browser,       \* webbrowser.open has been called
    auth_code,     \* the global auth_code
    requests,      \* requests the /oauth2/callback route has handled
    stored,        \* the non-None codes the route has stored in auth_code
    exchange       \* the arguments of get_tokens_authorization_code_grant, in order

vars == <<pc, exc, numImages, resolved, agent, turn, guard, verdict, pending, hist,
          invoked, emitted, vision, searchCalls, failure, final_output, report,
          today, docgen, apc, hadTokens, flask, browser, auth_code, requests,
          stored, exchange>>

authVars == <<apc, hadTokens, flask, browser, auth_code, requests, stored, exchange>>

driverVars == <<pc, exc, numImages, resolved, failure, report, today, docgen>>

runVars == <<agent, turn, guard, verdict, pending, hist, invoked, emitted, vision,
             searchCalls, final_output>>

NoStep == [kind |-> "none"]
NoDate == [year |-> 0, month |-> 0, day |-> 0]

\* auth_code = None
NoCode == "None"

\* The driver starts after authenticate_box has returned the client; here it
\* returned on the stored-tokens path.
Init ==
    /\ apc = "client"
    /\ hadTokens = TRUE
    /\ flask = "off"
    /\ browser = FALSE
    /\ auth_code = NoCode
    /\ requests = 0
    /\ stored = {}
    /\ exchange = <<>>
    /\ pc = "load"
    /\ exc = "none"
    /\ numImages \in 0..MaxImages
    /\ resolved = 0
    /\ agent = claim_orchestrator
    /\ turn = 0
    /\ guard = "idle"
    /\ verdict = "none"
    /\ pending = NoStep
    /\ hist = <<>>
    /\ invoked = {}
    /\ emitted = [a \in Specialists |-> "none"]
    /\ vision = [calls |-> 0, result |-> "none"]
    /\ searchCalls = 0
    /\ failure = {}
    /\ final_output = NoOutput
    /\ report = NoOutput
    /\ today = NoDate
    /\ docgen = [status |-> "none", input |-> NoOutput]

\* ------------------------------------------------------------ driver, before the run
\* No statement of process_insurance_claim before the final check is inside a
\* try: an exception raised there leaves the function.
DriverOnExceptionSwallow(e) == [pc |-> "returned", exc |-> "none"]

DriverOnException(e) == [pc |-> "raised", exc |-> e]

Raise(e) ==
    /\ pc' = DriverOnException(e).pc
    /\ exc' = DriverOnException(e).exc

\* parse_customer_info_file(CLAIM_INFO_FILE_PATH)
LoadCustomer ==
    /\ pc = "load"
    /\ pc' = "urls"
    /\ UNCHANGED <<exc, numImages, resolved, failure, report, today, docgen>>
    /\ UNCHANGED runVars
    /\ UNCHANGED authVars

\* One pass of the loop over image_ids: get_file_by_id returns.
FetchDownloadUrl ==
    /\ pc = "urls"
    /\ resolved < numImages
    /\ resolved' = resolved + 1
    /\ UNCHANGED <<pc, exc, numImages, failure, report, today, docgen>>
    /\ UNCHANGED runVars
    /\ UNCHANGED authVars

\* get_file_by_id is called in the loop with no try around it.
OnLookupErrorSkip == "skip"

OnLookupError == "raise"

\* One pass of the loop over image_ids: get_file_by_id raises.
FetchDownloadUrlFails ==
    /\ pc = "urls"
    /\ resolved < numImages
    /\ failure' = failure \cup {"content_store"}
    /\ IF OnLookupError = "raise"
       THEN Raise("BoxAPIError") /\ UNCHANGED resolved
       ELSE resolved' = resolved + 1 /\ UNCHANGED <<pc, exc>>
    /\ UNCHANGED <<numImages, report, today, docgen>>
    /\ UNCHANGED runVars
    /\ UNCHANGED authVars

\* The loop is over: the query is built and Runner.run(claim_orchestrator, query)
\* starts; its first turn runs the input guardrail next to the first model call.
StartRun ==
    /\ pc = "urls"
    /\ resolved = numImages
    /\ pc' = "run"
    /\ guard' = "running"
    /\ hist' = <<claim_orchestrator>>
    /\ UNCHANGED <<exc, numImages, resolved, failure, report, today, docgen>>
    /\ UNCHANGED <<agent, turn, verdict, pending, invoked, emitted, vision,
                   searchCalls, final_output>>
    /\ UNCHANGED authVars


\* ------------------------------------------------------------ the run
\* The run's loop takes the next step of a turn at once, except in the first
\* turn, whose result waits for the input guardrail to finish.
ApplyStep(step) ==
    /\ agent' = IF step.kind = "handoff" THEN step.to ELSE agent
    /\ hist' = IF step.kind = "handoff" THEN Append(hist, step.to) ELSE hist
    /\ final_output' = IF step.kind = "final" THEN step.out ELSE final_output
    /\ pc' = IF step.kind = "final" THEN "check" ELSE pc
    /\ pending' = NoStep

TakeStep(step) ==
    IF guard = "passed"
    THEN ApplyStep(step)
    ELSE pending' = step /\ UNCHANGED <<agent, hist, final_output, pc>>

\* A turn of the current agent can start.
CanTurn ==
    /\ pc = "run"
    /\ pending = NoStep
    /\ turn < MaxTurns
    /\ guard = "passed" \/ (guard = "running" /\ turn = 0)

StartTurn ==
    /\ turn' = turn + 1
    /\ invoked' = invoked \cup {agent}

\* tripwire_triggered = not final_output.is_insurance_related
TripwireNever(v) == FALSE

TripwireTriggered(v) == v # "in"

\* insurance_query_guardrail returns its GuardrailFunctionOutput.  A tripwire
\* ends the run with InputGuardrailTripwireTriggered, which no handler of the
\* driver catches; otherwise the first turn's result is taken.
GuardrailReturns ==
    /\ pc = "run"
    /\ guard = "running"
    /\ \E v \in {"in", "out"} :
        /\ verdict' = v
        /\ IF TripwireTriggered(v)
           THEN /\ guard' = "tripped"
                /\ Raise("InputGuardrailTripwireTriggered")
                /\ UNCHANGED <<agent, hist, final_output, pending>>
           ELSE /\ guard' = "passed"
                /\ IF pending = NoStep
                   THEN UNCHANGED <<agent, hist, final_output, pending, pc>>
                   ELSE ApplyStep(pending)
                /\ UNCHANGED exc
    /\ UNCHANGED <<numImages, resolved, turn, invoked, emitted, vision, searchCalls,
                   failure, report, today, docgen>>
    /\ UNCHANGED authVars

\* Runner.run(guardrail_agent, input_data) inside the guardrail raises.
GuardrailFails ==
    /\ pc = "run"
    /\ guard = "running"
    /\ failure' = failure \cup {"guardrail"}
    /\ Raise("APIError")
    /\ UNCHANGED <<numImages, resolved, report, today, docgen>>
    /\ UNCHANGED runVars
    /\ UNCHANGED authVars

\* The current agent's model call raises.
ModelCallFails ==
    /\ CanTurn
    /\ StartTurn
    /\ failure' = failure \cup {"model"}
    /\ Raise("APIError")
    /\ UNCHANGED <<numImages, resolved, report, today, docgen>>
    /\ UNCHANGED <<agent, guard, verdict, pending, hist, emitted, vision, searchCalls,
                   final_output>>
    /\ UNCHANGED authVars

\* The reply holds neither a final output nor a hand-off: the agent runs again.
AgentRunsAgain ==
    /\ CanTurn
    /\ StartTurn
    /\ TakeStep([kind |-> "again"])
    /\ UNCHANGED <<exc, numImages, resolved, failure, report, today, docgen>>
    /\ UNCHANGED <<guard, verdict, emitted, vision, searchCalls>>
    /\ UNCHANGED authVars


\* What analyze_vehicle_damage_gpt4v's call can come to: the JSON object with
\* both fields, a JSON object without damaged_parts_list, or an exception
\* (responses.create or json.loads raises).
VisionResults == {"ok", "missing_parts", "error"}

\* @function_tool is used with its defaults: an exception of the tool function
\* is turned into an error message that is given to the model as the tool's
\* output.
OnToolError == "message"

\* json.loads(response.output_text) is returned as it is: no result is refused.
ToolResultRefused(r) == FALSE

\* The Image Analyst's reply calls analyze_vehicle_damage_gpt4v; the tool runs
\* and the agent runs again with the tool's output.
AnalystCallsVisionTool ==
    /\ CanTurn
    /\ agent = image_analysis_agent
    /\ StartTurn
    /\ \E r \in VisionResults :
        /\ vision' = [calls |-> vision.calls + 1, result |-> r]
        /\ failure' = IF r = "error" THEN failure \cup {"vision"} ELSE failure
        /\ IF (r = "error" /\ OnToolError = "raise") \/ ToolResultRefused(r)
           THEN /\ Raise("ToolError")
                /\ UNCHANGED <<agent, hist, final_output, pending>>
           ELSE /\ TakeStep([kind |-> "again"])
                /\ UNCHANGED exc
    /\ UNCHANGED <<numImages, resolved, report, today, docgen>>
    /\ UNCHANGED <<guard, verdict, emitted, searchCalls>>
    /\ UNCHANGED authVars

\* The Repair Shop Finder's reply holds a web search (WebSearchTool is run by
\* the model's host within the call) and nothing else: the agent runs again.
ShopFinderSearches ==
    /\ CanTurn
    /\ agent = repair_shop_agent
    /\ StartTurn
    /\ searchCalls' = searchCalls + 1
    /\ TakeStep([kind |-> "again"])
    /\ UNCHANGED <<exc, numImages, resolved, failure, report, today, docgen>>
    /\ UNCHANGED <<guard, verdict, emitted, vision>>
    /\ UNCHANGED authVars

ReplyTexts == {"none", "valid", "invalid"}

Emit(text) ==
    emitted' = IF agent \in Specialists THEN [emitted EXCEPT ![agent] = text] ELSE emitted

\* The reply calls a transfer tool: the agent loop offers one per entry of the
\* agent's handoffs, and a hand-off is taken before any text of the same reply
\* is looked at.
AgentHandsOff ==
    /\ CanTurn
    /\ StartTurn
    /\ \E b \in Handoffs(agent), text \in ReplyTexts :
        /\ Emit(text)
        /\ TakeStep([kind |-> "handoff", to |-> b])
    /\ UNCHANGED <<exc, numImages, resolved, failure, report, today, docgen>>
    /\ UNCHANGED <<guard, verdict, vision, searchCalls>>
    /\ UNCHANGED authVars

\* The final outputs an agent's output_type admits.
FinalOutputsAnyAgent(a) == InsuranceReports \cup {SpecialistOutput(a)}

FinalOutputs(a) ==
    IF a = claim_orchestrator THEN InsuranceReports ELSE {SpecialistOutput(a)}

\* The reply is text that validates against the agent's output_type: it is the
\* run's final output, whichever agent is current.
AgentFinalOutput ==
    /\ CanTurn
    /\ StartTurn
    /\ Emit("valid")
    /\ \E out \in FinalOutputs(agent) : TakeStep([kind |-> "final", out |-> out])
    /\ UNCHANGED <<exc, numImages, resolved, failure, report, today, docgen>>
    /\ UNCHANGED <<guard, verdict, vision, searchCalls>>
    /\ UNCHANGED authVars

\* The reply is text that does not validate against the agent's output_type:
\* the run raises ModelBehaviorError.
AgentInvalidOutput ==
    /\ CanTurn
    /\ StartTurn
    /\ Emit("invalid")
    /\ Raise("ModelBehaviorError")
    /\ UNCHANGED <<numImages, resolved, failure, report, today, docgen>>
    /\ UNCHANGED <<agent, guard, verdict, pending, hist, vision, searchCalls,
                   final_output>>
    /\ UNCHANGED authVars

\* The loop's test before a turn: current_turn > max_turns.
TurnLimitNever == FALSE

TurnLimitReached == turn >= MaxTurns

\* The loop starts a turn beyond max_turns.
MaxTurnsExceeded ==
    /\ pc = "run"
    /\ guard = "passed"
    /\ pending = NoStep
    /\ TurnLimitReached
    /\ Raise("MaxTurnsExceeded")
    /\ UNCHANGED <<numImages, resolved, failure, report, today, docgen>>
    /\ UNCHANGED runVars
    /\ UNCHANGED authVars

\* ------------------------------------------------------------ driver, after the run
\* assert isinstance(report, InsuranceReport): final_output_as only casts.
IsInsuranceReport(x) == x.type = "InsuranceReport"

\* except Exception as exc: print(...); raise
OnCheckFailureReturn == "return"

OnCheckFailure == "raise"

DefaultFill(r, d) ==
    IF IsBlank(r.report_date) THEN [r EXCEPT !.report_date = IsoFormat(d)] ELSE r

\* The statements after Runner.run: the type check, the report_date default
\* and the return.
CheckAndReturn ==
    /\ pc = "check"
    /\ IF IsInsuranceReport(final_output)
       THEN /\ IF IsBlank(final_output.report_date)
               THEN \E d \in Dates :
                       /\ today' = d
                       /\ report' = DefaultFill(final_output, d)
               ELSE /\ report' = DefaultFill(final_output, today)
                    /\ UNCHANGED today
            /\ pc' = "returned"
            /\ UNCHANGED exc
       ELSE IF OnCheckFailure = "raise"
            THEN /\ Raise("AssertionError")
                 /\ UNCHANGED <<report, today>>
            ELSE /\ pc' = "returned"
                 /\ report' = final_output
                 /\ UNCHANGED <<exc, today>>
    /\ UNCHANGED <<numImages, resolved, failure, docgen>>
    /\ UNCHANGED runVars
    /\ UNCHANGED authVars

\* ------------------------------------------------------------ Doc Gen cell
\* docgen_user_input: the dumped report with claim.damaged_parts_list replaced
\* by the joined text.
DocGenUserInput(r) ==
    [r EXCEPT !.damaged_parts_list = Join(r.damaged_parts_list.val)]

\* The cell after the driver's: it runs once final_report is bound.  The dumped
\* claim always has the key damaged_parts_list, so .get's default is not used
\* and a None list reaches ", ".join, which raises TypeError; otherwise the
\* batch is created or the Doc Gen service raises.
DocGenCell ==
    /\ pc = "returned"
    /\ docgen.status = "none"
    /\ IF IsInsuranceReport(report) /\ report.damaged_parts_list.some
       THEN \/ docgen' = [status |-> "submitted", input |-> DocGenUserInput(report)]
            \/ docgen' = [status |-> "failed", input |-> NoOutput]
       ELSE docgen' = [status |-> "type_error", input |-> NoOutput]
    /\ UNCHANGED <<pc, exc, numImages, resolved, failure, report, today>>
    /\ UNCHANGED runVars
    /\ UNCHANGED authVars

\* ------------------------------------------------------------ authenticate_box
\* Largest number of requests the callback route handles.
MaxCallbacks == 3

\* request.args.get("code"): the code of the redirect, or None when the
\* request has no code parameter.
Codes == {NoCode, "code1", "code2"}

\* The cell's state when authenticate_box() is called: auth_code = None was
\* just assigned, nothing has been uploaded yet, the driver has not started.
AuthInit ==
    /\ apc = "check"
    /\ hadTokens \in BOOLEAN
    /\ flask = "off"
    /\ browser = FALSE
    /\ auth_code = NoCode
    /\ requests = 0
    /\ stored = {}
    /\ exchange = <<>>
    /\ pc = "load"
    /\ exc = "none"
    /\ numImages = 0
    /\ resolved = 0
    /\ agent = claim_orchestrator
    /\ turn = 0
    /\ guard = "idle"
    /\ verdict = "none"
    /\ pending = NoStep
    /\ hist = <<>>
    /\ invoked = {}
    /\ emitted = [a \in Specialists |-> "none"]
    /\ vision = [calls |-> 0, result |-> "none"]
    /\ searchCalls = 0
    /\ failure = {}
    /\ final_output = NoOutput
    /\ report = NoOutput
    /\ today = NoDate
    /\ docgen = [status |-> "none", input |-> NoOutput]

\* if token_storage.get(): the stored tokens are used and the client returned;
\* else the authorization URL is built.
CheckTokens ==
    /\ apc = "check"
    /\ apc' = IF hadTokens THEN "client" ELSE "thread"
    /\ UNCHANGED <<hadTokens, flask, browser, auth_code, requests, stored, exchange>>
    /\ UNCHANGED <<driverVars, runVars>>

\* flask_thread.start()
StartFlaskThread ==
    /\ apc = "thread"
    /\ apc' = "browser"
    /\ flask' = "started"
    /\ UNCHANGED <<hadTokens, browser, auth_code, requests, stored, exchange>>
    /\ UNCHANGED <<driverVars, runVars>>

\* start_flask_app: app.run(port=4000) begins to serve.
FlaskServes ==
    /\ flask = "started"
    /\ flask' = "serving"
    /\ UNCHANGED <<apc, hadTokens, browser, auth_code, requests, stored, exchange>>
    /\ UNCHANGED <<driverVars, runVars>>

\* webbrowser.open(auth_url)
OpenBrowser ==
    /\ apc = "browser"
    /\ apc' = "wait"
    /\ browser' = TRUE
    /\ UNCHANGED <<hadTokens, flask, auth_code, requests, stored, exchange>>
    /\ UNCHANGED <<driverVars, runVars>>

\* oauth2_callback, on the callback thread: auth_code = request.args.get("code")
OAuth2Callback ==
    /\ flask = "serving"
    /\ requests < MaxCallbacks
    /\ \E c \in Codes :
        /\ auth_code' = c
        /\ stored' = IF c = NoCode THEN stored ELSE stored \cup {c}
    /\ requests' = requests + 1
    /\ UNCHANGED <<apc, hadTokens, flask, browser, exchange>>
    /\ UNCHANGED <<driverVars, runVars>>

\* while auth_code is None: pass -- the test that ends the loop.
WaitLoopExits ==
    /\ apc = "wait"
    /\ auth_code # NoCode
    /\ apc' = "exchange"
    /\ UNCHANGED <<hadTokens, flask, browser, auth_code, requests, stored, exchange>>
    /\ UNCHANGED <<driverVars, runVars>>

\* oauth.get_tokens_authorization_code_grant(auth_code): the global is read
\* again, after the loop has ended; the call returns and
\* the client is built, or the call raises.
ExchangeCode ==
    /\ apc = "exchange"
    /\ exchange' = Append(exchange, auth_code)
    /\ apc' \in {"client", "failed"}
    /\ UNCHANGED <<hadTokens, flask, browser, auth_code, requests, stored>>
    /\ UNCHANGED <<driverVars, runVars>>

AuthNext ==
    \/ CheckTokens
    \/ StartFlaskThread
    \/ FlaskServes
    \/ OpenBrowser
    \/ OAuth2Callback
    \/ WaitLoopExits
    \/ ExchangeCode

AuthSpec == AuthInit /\ [][AuthNext]_vars

\* ------------------------------------------------------------ specification
Next ==
    \/ LoadCustomer
    \/ FetchDownloadUrl
    \/ FetchDownloadUrlFails
    \/ StartRun
    \/ GuardrailReturns
    \/ GuardrailFails
    \/ ModelCallFails
    \/ AgentRunsAgain
    \/ AnalystCallsVisionTool
    \/ ShopFinderSearches
    \/ AgentHandsOff
    \/ AgentFinalOutput
    \/ AgentInvalidOutput
    \/ MaxTurnsExceeded
    \/ CheckAndReturn
    \/ DocGenCell

Spec == Init /\ [][Next]_vars

\* Every step of a run is an awaited call or a local statement: a call the run
\* waits for returns or raises, so an enabled step is eventually taken.
FairSpec == Spec /\ WF_vars(Next)


\* ------------------------------------------------------------ claims
FullChain == <<claim_orchestrator, image_analysis_agent, cost_estimation_agent,
               repair_shop_agent, claim_orchestrator>>

IsPrefix(s, t) == Len(s) <= Len(t) /\ s = SubSeq(t, 1, Len(s))

Occurrences(a, s) == Cardinality({i \in 1..Len(s) : s[i] = a})

\* C1: when the guardrail's verdict is out-of-domain the run is rejected (the
\* tripwire exception ends it), and no specialist agent has been called, nor
\* the vision tool, the web search or the document generation.
C1_RejectedBeforeSpecialists ==
    verdict = "out" =>
        /\ guard = "tripped"
        /\ pc = "raised"
        /\ invoked \cap Specialists = {}
        /\ \A i \in 1..Len(hist) : hist[i] \notin Specialists
        /\ vision.calls = 0
        /\ searchCalls = 0
        /\ docgen.status = "none"

\* C1 witness: the guardrail rejects after the orchestrator's first reply has
\* already asked for the hand-off to the Image Analyst.
C1_Witness ==
    /\ verdict = "out"
    /\ pending = [kind |-> "handoff", to |-> image_analysis_agent]

\* C2: a report is returned only when every specialist was reached and gave an
\* output, and the returned report has damage_description, damaged_parts_list
\* and estimated_cost.
C2_NoPartialReport ==
    pc = "returned" =>
        /\ \A a \in Specialists : a \in invoked /\ emitted[a] # "none"
        /\ report.damage_description.some
        /\ report.damaged_parts_list.some
        /\ report.estimated_cost.some

\* C3: for an in-domain request the orchestrator's final InsuranceReport exists
\* only after each of the three specialists has produced schema-valid output.
C3_DoneAfterAllSpecialists ==
    (verdict = "in" /\ IsInsuranceReport(final_output)) =>
        \A a \in Specialists : emitted[a] = "valid"

\* C4: the stages are entered in the order Guardrail, Image Analysis, Cost
\* Estimation, Shop Search, Merge, each only after the stages before it have
\* completed: no specialist is entered before the guardrail has passed, the
\* agents become current in the order of the chain, and the merged report is
\* the run's output only when the guardrail has passed and the chain is complete.
C4_StrictStageOrder ==
    /\ IsPrefix(hist, FullChain)
    /\ (\E i \in 1..Len(hist) : hist[i] \in Specialists) => guard = "passed"
    /\ IsInsuranceReport(final_output) => (guard = "passed" /\ hist = FullChain)

\* C5: no stage is entered a second time, and once control is back at the
\* orchestrator no specialist is entered again.
C5_NoReentry ==
    /\ \A a \in Specialists : Occurrences(a, hist) <= 1
    /\ Occurrences(claim_orchestrator, hist) <= 2
    /\ Len(hist) <= Len(FullChain)

\* C6: process_insurance_claim returns only InsuranceReport instances; when the
\* run's final output is anything else the driver raises and returns nothing.
C6_ReturnsOnlyReports ==
    /\ pc = "returned" => IsInsuranceReport(report)
    /\ (pc \in {"returned", "raised"} /\ final_output # NoOutput
            /\ final_output.type # "InsuranceReport") =>
        (pc = "raised" /\ exc = "AssertionError" /\ report = NoOutput)

\* C6 witness: the run ended at the Repair Shop Finder with a Shops object and
\* the driver raised.
C6_Witness ==
    /\ final_output = [type |-> "Shops"]
    /\ pc = "raised"
    /\ exc = "AssertionError"

\* C7 as stated: a guardrail rejection does not leave process_insurance_claim
\* as an uncaught exception.
C7_RejectionNotRaised ==
    guard = "tripped" => exc = "none"

\* C7 amended: a guardrail rejection is terminal and leaves
\* process_insurance_claim as the uncaught InputGuardrailTripwireTriggered; no
\* turn beyond the first is run and no report is returned.
C7_RejectionRaises ==
    guard = "tripped" =>
        /\ pc = "raised"
        /\ exc = "InputGuardrailTripwireTriggered"
        /\ turn <= 1
        /\ agent = claim_orchestrator
        /\ final_output = NoOutput
        /\ report = NoOutput

\* C7 witness: the rejection arrives after the orchestrator's first model call.
C7_Witness ==
    /\ guard = "tripped"
    /\ turn = 1
    /\ exc = "InputGuardrailTripwireTriggered"

AllWhitespace(s) == \A i \in 1..Len(s) : s[i] \in {" ", "\t", "\n"}

IsoText(d) ==
    IF d = [year |-> 2025, month |-> 4, day |-> 21]
    THEN <<"2", "0", "2", "5", "-", "0", "4", "-", "2", "1">>
    ELSE IF d = [year |-> 2026, month |-> 11, day |-> 4]
    THEN <<"2", "0", "2", "6", "-", "1", "1", "-", "0", "4">>
    ELSE <<"?">>

\* C8: the returned report's report_date is today's date in ISO form when the
\* merged report_date is empty or whitespace-only, the merged report_date
\* otherwise; every other field is the merged report's.
C8_DefaultFill ==
    pc = "returned" =>
        /\ AllWhitespace(final_output.report_date) => report.report_date = IsoText(today)
        /\ ~AllWhitespace(final_output.report_date) =>
                report.report_date = final_output.report_date
        /\ [report EXCEPT !.report_date = final_output.report_date] = final_output

\* C8 witness: a whitespace-only report_date was replaced, and a report_date
\* with text between spaces is one the merge can produce.
C8_Witness ==
    /\ pc = "returned"
    /\ final_output.report_date = <<"\t", " ">>
    /\ report.report_date = <<"2", "0", "2", "6", "-", "1", "1", "-", "0", "4">>

\* C9: when the vision tool's result is JSON without damaged_parts_list the
\* run fails.
C9_MissingPartsFailsRun ==
    vision.result = "missing_parts" => pc = "raised"

\* C10 as stated: whenever an external call has failed, the failure has left
\* process_insurance_claim and nothing more is run.
C10_AnyFailurePropagates ==
    failure # {} => pc = "raised"

PropagatingFailure == failure \cap {"guardrail", "content_store", "model"} # {}

\* C10 amended: when the guardrail classification, a content-store URL lookup
\* or an agent's model call (web search included) raises, the exception leaves
\* process_insurance_claim uncaught: nothing is run afterwards, the call is not
\* made again and no report is returned.
C10_FailurePropagates ==
    /\ [](PropagatingFailure =>
            /\ pc = "raised"
            /\ exc \in {"APIError", "BoxAPIError"}
            /\ Cardinality(failure \cap {"guardrail", "content_store", "model"}) = 1
            /\ final_output = NoOutput
            /\ report = NoOutput
            /\ docgen.status = "none")
    /\ [][PropagatingFailure => UNCHANGED vars]_vars

\* C10 witness: a model call of a specialist raised in the middle of the chain.
C10_Witness ==
    /\ "model" \in failure
    /\ agent = cost_estimation_agent
    /\ pc = "raised"
    /\ exc = "APIError"


\* C11: a returned report's claim_number is the claim identifier that was
\* supplied (CLAIM_ID).
C11_ClaimNumberKept ==
    pc = "returned" => report.claim_number = "G8947892834455"

\* The run's output as soon as a reply has been accepted as final.
RunOutput == IF pending.kind = "final" THEN pending.out ELSE final_output

\* C12: at most one InsuranceReport is created in a run, the orchestrator
\* creates it, and the user input given to document generation is that report
\* (as the driver returned it) with nothing but the parts field rewritten.
C12_OneReportOneArtifact ==
    /\ [](/\ IsInsuranceReport(RunOutput) => agent = "Insurance Claim Orchestrator"
          /\ report # NoOutput => report = DefaultFill(final_output, today)
          /\ docgen.status = "submitted" =>
                [docgen.input EXCEPT !.damaged_parts_list = report.damaged_parts_list]
                    = report)
    /\ [][RunOutput' # RunOutput => (RunOutput = NoOutput /\ final_output = NoOutput)]_vars
    /\ [][report' # report => report = NoOutput]_vars

\* C12 witness: the report merged after the whole chain was submitted.
C12_Witness ==
    /\ docgen.status = "submitted"
    /\ hist = FullChain
    /\ report.damaged_parts_list = Some(<<"bumper", "camera">>)

\* Some specialist has handed off: it is followed by another agent in hist.
HandedOff(a) == \E i \in 1..(Len(hist) - 1) : hist[i] = a

\* C13: a specialist's hand-off is accepted only after that specialist has
\* emitted output that validated against its output_type.
C13_HandoffAfterValidOutput ==
    \A a \in Specialists :
        (HandedOff(a) /\ agent # a) => emitted[a] = "valid"

\* C14: the run never ends at the Repair Shop Finder with the Shops object as
\* its final output.
C14_ShopsNeverFinal ==
    RunOutput.type # "Shops"

\* C15: for every returned report the Doc Gen cell submits the report with the
\* parts joined by ", " in their order, and the cell does not fail on the
\* report.
C15_DocGenAcceptsEveryReport ==
    /\ docgen.status # "type_error"
    /\ (docgen.status = "submitted"
            /\ report.damaged_parts_list = Some(<<"bumper", "camera">>)) =>
        docgen.input.damaged_parts_list = "bumper, camera"
    /\ (docgen.status = "submitted" /\ report.damaged_parts_list = Some(<<>>)) =>
        docgen.input.damaged_parts_list = ""

ConfiguredEdges ==
    {<<"Insurance Claim Orchestrator", "Image Analyst">>,
     <<"Image Analyst", "Cost Estimator">>,
     <<"Cost Estimator", "Repair Shop Finder">>,
     <<"Repair Shop Finder", "Insurance Claim Orchestrator">>}

\* C16: every hand-off taken (or waiting for the guardrail) follows an edge of
\* the configured graph, so no hand-off skips a stage.
C16_HandoffsFollowGraph ==
    /\ \A i \in 1..(Len(hist) - 1) : <<hist[i], hist[i + 1]>> \in ConfiguredEdges
    /\ pending.kind = "handoff" => <<agent, pending.to>> \in ConfiguredEdges
    /\ hist # <<>> => (hist[1] = "Insurance Claim Orchestrator" /\ hist[Len(hist)] = agent)

\* C16 witness: the hand-offs went once round the graph and on to the Image
\* Analyst again.
C16_Witness ==
    /\ Len(hist) = 6
    /\ agent = "Image Analyst"


\* C17: every run ends: process_insurance_claim returns a report or an
\* exception (the guardrail's rejection among them) leaves it; the hand-offs
\* between the agents do not go on forever.
C17_RunTerminates ==
    <>[](pc \in {"returned", "raised"})

\* C17 witness: the hand-offs went round the graph until the turn limit ended
\* the run.
C17_Witness ==
    /\ pc = "raised"
    /\ exc = "MaxTurnsExceeded"
    /\ Len(hist) > Len(FullChain)


\* C18: when tokens are already stored no callback thread is started, no
\* browser is opened and no code is exchanged; otherwise the code exchange is
\* called at most once, only after the callback route has stored a non-None
\* code, and with a code the route stored.
C18_ExchangeOnceWithStoredCode ==
    /\ hadTokens => (flask = "off" /\ ~browser /\ exchange = <<>>)
    /\ Len(exchange) <= 1
    /\ apc = "client" => (hadTokens \/ Len(exchange) = 1)
    /\ exchange # <<>> => (stored # {} /\ exchange[1] \in stored)

====
